---------------------------- MODULE Spec2Model ----------------------------
(***************************************************************************)
(* xpldd (src/xpldd.cpp): a cross-platform ELF ldd.                        *)
(*                                                                         *)
(* The program is modelled as a sequential state machine with an explicit  *)
(* call stack: main's batch loop, process_file (the dependency graph       *)
(* builder), gather_flat_deps / print_flat_deps (the flat listing) and     *)
(* print_tree_deps (the tree listing).  Strings are sequences of character *)
(* codes, so that name[0] == '/', string concatenation, the path join of   *)
(* std::filesystem and the ordering of std::set<string> are computed and   *)
(* not assumed.  Binary objects live in a heap (new Binary()) and the      *)
(* registry _found_binaries maps path strings to heap addresses, 0 being   *)
(* nullptr.  The file system is the environment: chosen in Init, constant  *)
(* during one invocation.  Diagnostics written to cerr are not modelled.   *)
(***************************************************************************)
EXTENDS Integers, Sequences, FiniteSets, TLC

VARIABLES
    fs,          \* environment: existing path |-> file content
    args,        \* argv[optind .. argc-1]
    prefix,      \* XplddState::_prefix
    orig_rpath,  \* XplddState::_orig_rpath
    recurse,     \* XplddState::_recurse
    tree,        \* XplddState::_tree
    found,       \* XplddState::_found_binaries : path |-> heap address (0 = nullptr)
    done,        \* XplddState::_done
    failed,      \* XplddState::_failed
    heap,        \* the Binary objects allocated so far; address = index
    freed,       \* heap addresses deleted by main's cleanup
    stack,       \* activation records of process_file and of the two walks
    ret,         \* the value returned by the last process_file activation
    all_deps,    \* print_flat_deps' local std::set<string>
    out,         \* lines written to cout: [tabs, text]
    handles,     \* open file descriptors / Elf handles not yet released
    mpc,         \* main's position
    argi,        \* main's loop variable i, as index into args (i - optind + 1)
    exitCode,    \* main's return value, -1 while running
    scans,       \* environment: the paths whose sections were scanned, in order
    rsIn,        \* resolve_symbol harness: the arguments and the file system
    rsOut        \* resolve_symbol harness: the result

vars == <<fs, args, prefix, orig_rpath, recurse, tree, found, done, failed, heap,
          freed, stack, ret, all_deps, out, handles, mpc, argi, exitCode, scans, rsIn, rsOut>>

config == <<fs, args, prefix, orig_rpath, recurse, tree>>
harness == <<rsIn, rsOut>>

-----------------------------------------------------------------------------
(* Bounds of the model *)

\* most top-level inputs on one command line
MaxArgs == 2
\* depth of the call stack at which a recursion is cut off (a real stack is finite)
MaxStack == 6
\* most search-path entries handed to resolve_symbol in its own specification
MaxRpaths == 2

-----------------------------------------------------------------------------
(* Strings *)

\* '/' (the character tested at line 67 and line 177)
Slash == 47
\* ':' (written after the name at line 272)
Colon == 58

NULL == 0

FileA == <<Slash, 97>>
FileB == <<Slash, 98>>
FileC == <<Slash, 99>>
DirO == <<Slash, 111>>
DirR == <<Slash, 114>>
NameX == <<120>>
OX == DirO \o <<Slash>> \o NameX
RX == DirR \o <<Slash>> \o NameX

\* std::string operator< : lexicographic on character codes
RECURSIVE StrLess(_, _)
StrLess(s, t) ==
    IF t = <<>> THEN FALSE
    ELSE IF s = <<>> THEN TRUE
    ELSE IF s[1] # t[1] THEN s[1] < t[1]
    ELSE StrLess(Tail(s), Tail(t))

\* iteration order of a std::set<string>: ascending
RECURSIVE SetInOrder(_)
SetInOrder(S) ==
    IF S = {} THEN <<>>
    ELSE LET m == CHOOSE x \in S : \A y \in S \ {x} : StrLess(x, y)
         IN <<m>> \o SetInOrder(S \ {m})

\* name[0] == '/' ; name[0] of an empty std::string is '\0'
IsAbsolute(name) == Len(name) > 0 /\ name[1] = Slash

\* std::filesystem::path operator/ on POSIX: an absolute right side replaces the
\* left; a separator is added only when the left side has a filename
PathJoin(dir, name) ==
    IF IsAbsolute(name) THEN name
    ELSE IF dir = <<>> \/ dir[Len(dir)] = Slash THEN dir \o name
    ELSE dir \o <<Slash>> \o name

-----------------------------------------------------------------------------
(* resolve_symbol *)

\* the loop of lines 70-77 from index i on; exists is the set of existing paths
RECURSIVE ResolveFrom(_, _, _, _, _)
ResolveFrom(i, name, rpaths, pfx, exists) ==
    IF i > Len(rpaths) THEN name
    ELSE LET full_path == PathJoin(pfx \o rpaths[i], name)
         IN IF full_path \in exists THEN full_path
            ELSE ResolveFrom(i + 1, name, rpaths, pfx, exists)

\* a resolver that starts its search at the second entry
ResolveSymbolSkipFirst(name, rpaths, pfx, exists) ==
    IF IsAbsolute(name) THEN name ELSE ResolveFrom(2, name, rpaths, pfx, exists)

resolve_symbol(name, rpaths, pfx, exists) ==
    IF IsAbsolute(name) THEN name ELSE ResolveFrom(1, name, rpaths, pfx, exists)

-----------------------------------------------------------------------------
(* The file system and the ELF reader (libelf), as process_file sees them *)

\* open(2) succeeds
CanOpen(path) == path \in DOMAIN fs /\ fs[path].kind # "noperm"
\* elf_kind(e) == ELF_K_ELF
IsElf(path) == fs[path].kind = "elf"

NewBinary(name) == [_name |-> name, _depends |-> <<>>, _rpath |-> <<>>]

\* the loop of lines 102-118 from entry cnt on: gelf_getdyn failing ends the loop
RECURSIVE DynFrom(_, _, _)
DynFrom(cnt, dyn, binary) ==
    IF cnt > Len(dyn) THEN binary
    ELSE IF ~dyn[cnt].ok THEN binary
    ELSE DynFrom(cnt + 1, dyn,
           CASE dyn[cnt].d_tag = "DT_NEEDED" ->
                  [binary EXCEPT !._depends = Append(@, dyn[cnt].str)]
             [] dyn[cnt].d_tag = "DT_RPATH" ->
                  [binary EXCEPT !._rpath = Append(@, dyn[cnt].str)]
             [] OTHER -> binary)

\* handle_dynamic: sec.pre says that elf_getshdrstrndx, elf_getdata and the
\* gelf_getshdr of the linked string table all succeed
handle_dynamic(sec, binary) ==
    IF ~sec.pre THEN [ok |-> FALSE, binary |-> binary]
    ELSE [ok |-> TRUE, binary |-> DynFrom(1, sec.dyn, binary)]

\* the section loop of lines 146-160 from section k on; aborted is the goto err1
\* of line 152
RECURSIVE ScanFrom(_, _, _, _)
ScanFrom(k, secs, binary, fl) ==
    IF k > Len(secs) THEN [binary |-> binary, failed |-> fl, aborted |-> FALSE]
    ELSE IF ~secs[k].hdr THEN [binary |-> binary, failed |-> TRUE, aborted |-> TRUE]
    ELSE IF secs[k].sh_type = "SHT_DYNAMIC"
         THEN LET r == handle_dynamic(secs[k], binary)
              IN ScanFrom(k + 1, secs, r.binary, fl \/ ~r.ok)
         ELSE ScanFrom(k + 1, secs, binary, fl)

-----------------------------------------------------------------------------
(* The registry: std::map<string, Binary*> *)

\* _found_binaries[key] = value
Put(reg, key, value) ==
    [k \in DOMAIN reg \cup {key} |-> IF k = key THEN value ELSE reg[k]]

\* the map after reading _found_binaries[key]: operator[] inserts a
\* value-initialised (null) pointer under a key that is absent
Touch(reg, key) == IF key \in DOMAIN reg THEN reg ELSE Put(reg, key, NULL)

\* _found_binaries.count(key)
Count(reg, key) == IF key \in DOMAIN reg THEN 1 ELSE 0

-----------------------------------------------------------------------------
(* Activation records *)

Frame(fn, pc, file, binary, depth) ==
    [fn |-> fn, pc |-> pc, file |-> file, binary |-> binary, failed |-> FALSE,
     combined_rpath |-> <<>>, i |-> 1, depth |-> depth]

Top == stack[Len(stack)]
Running(fn, pc) == stack # <<>> /\ Top.fn = fn /\ Top.pc = pc

SetTop(f) == [stack EXCEPT ![Len(stack)] = f]
Pop == SubSeq(stack, 1, Len(stack) - 1)

-----------------------------------------------------------------------------
(* process_file *)

\* a process_file that registers its record as soon as it is allocated
PFOpenRegistersFirst ==
    /\ Running("process_file", "open")
    /\ LET b == Len(heap) + 1 IN
       /\ heap' = Append(heap, NewBinary(Top.file))
       /\ found' = Put(found, Top.file, b)
       /\ IF ~CanOpen(Top.file)
          THEN /\ stack' = Pop
               /\ ret' = FALSE
               /\ UNCHANGED handles
          ELSE /\ handles' = [fd |-> handles.fd + 1, elf |-> handles.elf + 1]
               /\ UNCHANGED ret
               /\ IF IsElf(Top.file)
                  THEN stack' = SetTop([Top EXCEPT !.binary = b, !.pc = "scan"])
                  ELSE stack' = SetTop([Top EXCEPT !.binary = b, !.failed = TRUE,
                                                   !.pc = "err1"])
    /\ UNCHANGED <<config, harness, scans, done, failed, freed, all_deps, out, mpc,
                   argi, exitCode>>

\* lines 131-143: allocate the record, open the file, check its kind.  The
\* record allocated at line 131 stays on the heap when the open fails.
PFOpen ==
    /\ Running("process_file", "open")
    /\ LET b == Len(heap) + 1 IN
       /\ heap' = Append(heap, NewBinary(Top.file))
       /\ IF ~CanOpen(Top.file)
          THEN /\ stack' = Pop
               /\ ret' = FALSE
               /\ UNCHANGED handles
          ELSE /\ handles' = [fd |-> handles.fd + 1, elf |-> handles.elf + 1]
               /\ UNCHANGED ret
               /\ IF IsElf(Top.file)
                  THEN stack' = SetTop([Top EXCEPT !.binary = b, !.pc = "scan"])
                  ELSE stack' = SetTop([Top EXCEPT !.binary = b, !.failed = TRUE,
                                                   !.pc = "err1"])
    /\ UNCHANGED <<config, harness, scans, found, done, failed, freed, all_deps, out, mpc,
                   argi, exitCode>>

\* lines 146-160: the scan of the sections
PFScan ==
    /\ Running("process_file", "scan")
    /\ LET r == ScanFrom(1, fs[Top.file].secs, heap[Top.binary], Top.failed) IN
       /\ heap' = [heap EXCEPT ![Top.binary] = r.binary]
       /\ stack' = SetTop([Top EXCEPT !.failed = r.failed,
                                      !.pc = IF r.aborted THEN "err1" ELSE "register"])
    /\ scans' = Append(scans, Top.file)
    /\ UNCHANGED <<config, harness, found, done, failed, freed, ret, all_deps, out,
                   handles, mpc, argi, exitCode>>

\* a process_file that goes on to its dependencies without registering itself
PFRegisterSkipped ==
    /\ Running("process_file", "register")
    /\ stack' = SetTop([Top EXCEPT
                          !.combined_rpath = orig_rpath \o heap[Top.binary]._rpath,
                          !.i = 1, !.pc = "deps"])
    /\ UNCHANGED <<config, harness, scans, found, done, failed, heap, freed, ret, all_deps,
                   out, handles, mpc, argi, exitCode>>

\* a combined list with the binary's own entries first
CombinedRpathOwnFirst(orig, own) == own \o orig

\* lines 164-170: the caller's entries, then the binary's own
CombinedRpath(orig, own) == orig \o own

\* lines 162-170: register the record under the path, build the search list
PFRegister ==
    /\ Running("process_file", "register")
    /\ found' = Put(found, Top.file, Top.binary)
    /\ stack' = SetTop([Top EXCEPT
                          !.combined_rpath =
                              CombinedRpath(orig_rpath, heap[Top.binary]._rpath),
                          !.i = 1, !.pc = "deps"])
    /\ UNCHANGED <<config, harness, scans, done, failed, heap, freed, ret, all_deps, out,
                   handles, mpc, argi, exitCode>>

\* a descent that does not look the path up in the registry
DescendsUnregisteredOrNot(sym, reg) == IsAbsolute(sym)

\* a descent that does not ask for an absolute path
DescendsRelativeToo(sym, reg) == Count(reg, sym) = 0

\* lines 177-185: process_file is called on a resolved dependency that is an
\* absolute path and not yet a key of the registry
Descends(sym, reg) == IsAbsolute(sym) /\ Count(reg, sym) = 0

\* a dependency loop that gives up its remaining entries once a call it made
\* has returned failure
PFDepStopsAfterFailure ==
    /\ Running("process_file", "deps")
    /\ Top.i <= Len(heap[Top.binary]._depends)
    /\ LET b == Top.binary
           i == Top.i
           sym == resolve_symbol(heap[b]._depends[i], Top.combined_rpath, prefix,
                                 DOMAIN fs)
           resolved == [heap EXCEPT ![b]._depends[i] = sym]
           next == [Top EXCEPT !.i = i + 1]
           last == [Top EXCEPT !.i = Len(heap[b]._depends) + 1]
       IN IF recurse
          THEN IF i > 1 /\ ~ret
               THEN /\ stack' = SetTop(last)
                    /\ UNCHANGED <<heap, found>>
               ELSE /\ heap' = resolved
                    /\ UNCHANGED found
                    /\ IF Descends(sym, found)
                       THEN /\ Len(stack) < MaxStack
                            /\ stack' = Append(SetTop(next),
                                           Frame("process_file", "open", sym, NULL, 0))
                       ELSE stack' = SetTop(next)
          ELSE /\ heap' = Append(resolved, NewBinary(sym))
               /\ found' = Put(found, sym, Len(heap) + 1)
               /\ stack' = SetTop(next)
    /\ UNCHANGED <<config, harness, scans, done, failed, freed, ret, all_deps, out, handles,
                   mpc, argi, exitCode>>

\* lines 173-194: one iteration of the dependency loop
PFDep ==
    /\ Running("process_file", "deps")
    /\ Top.i <= Len(heap[Top.binary]._depends)
    /\ LET b == Top.binary
           i == Top.i
           sym == resolve_symbol(heap[b]._depends[i], Top.combined_rpath, prefix,
                                 DOMAIN fs)
           resolved == [heap EXCEPT ![b]._depends[i] = sym]
           next == [Top EXCEPT !.i = i + 1]
       IN IF recurse
          THEN /\ heap' = resolved
               /\ UNCHANGED found
               /\ IF Descends(sym, found)
                  THEN /\ Len(stack) < MaxStack
                       /\ stack' = Append(SetTop(next),
                                          Frame("process_file", "open", sym, NULL, 0))
                  ELSE stack' = SetTop(next)
          ELSE /\ heap' = Append(resolved, NewBinary(sym))
               /\ found' = Put(found, sym, Len(heap) + 1)
               /\ stack' = SetTop(next)
    /\ UNCHANGED <<config, harness, scans, done, failed, freed, ret, all_deps, out, handles,
                   mpc, argi, exitCode>>

\* a process_file that hands the failure of a call on a dependency up to its
\* own caller
PFReturnPropagates ==
    /\ \/ Running("process_file", "err1")
       \/ /\ Running("process_file", "deps")
          /\ Top.i > Len(heap[Top.binary]._depends)
    /\ handles' = [fd |-> handles.fd - 1, elf |-> handles.elf - 1]
    /\ ret' = /\ ~Top.failed
              /\ (recurse /\ Top.pc = "deps" /\ heap[Top.binary]._depends # <<>>) => ret
    /\ stack' = Pop
    /\ UNCHANGED <<config, harness, scans, found, done, failed, heap, freed, all_deps, out,
                   mpc, argi, exitCode>>

\* a process_file that releases nothing when it leaves through a failure
PFReturnKeepsOnFailure ==
    /\ \/ Running("process_file", "err1")
       \/ /\ Running("process_file", "deps")
          /\ Top.i > Len(heap[Top.binary]._depends)
    /\ handles' = IF Top.pc = "err1" THEN handles
                  ELSE [fd |-> handles.fd - 1, elf |-> handles.elf - 1]
    /\ ret' = ~Top.failed
    /\ stack' = Pop
    /\ UNCHANGED <<config, harness, scans, found, done, failed, heap, freed, all_deps, out,
                   mpc, argi, exitCode>>

\* lines 196-199: release the handle and the descriptor, return !failed
PFReturn ==
    /\ \/ Running("process_file", "err1")
       \/ /\ Running("process_file", "deps")
          /\ Top.i > Len(heap[Top.binary]._depends)
    /\ handles' = [fd |-> handles.fd - 1, elf |-> handles.elf - 1]
    /\ ret' = ~Top.failed
    /\ stack' = Pop
    /\ UNCHANGED <<config, harness, scans, found, done, failed, heap, freed, all_deps, out,
                   mpc, argi, exitCode>>

-----------------------------------------------------------------------------
(* gather_flat_deps, print_flat_deps *)

\* lines 204-210: one iteration; the lookup of line 206 goes through operator[]
GatherStep ==
    /\ Running("gather_flat_deps", "loop")
    /\ Top.i <= Len(heap[Top.binary]._depends)
    /\ LET dep == heap[Top.binary]._depends[Top.i]
           reg == Touch(found, dep)
           next == [Top EXCEPT !.i = Top.i + 1]
       IN /\ all_deps' = all_deps \cup {dep}
          /\ found' = reg
          /\ IF reg[dep] # NULL
             THEN /\ Len(stack) < MaxStack
                  /\ stack' = Append(SetTop(next),
                                     Frame("gather_flat_deps", "loop", dep, reg[dep], 0))
             ELSE stack' = SetTop(next)
    /\ UNCHANGED <<config, harness, scans, done, failed, heap, freed, ret, out, handles, mpc,
                   argi, exitCode>>

\* line 211: the loop is over
GatherReturn ==
    /\ Running("gather_flat_deps", "loop")
    /\ Top.i > Len(heap[Top.binary]._depends)
    /\ stack' = Pop
    /\ UNCHANGED <<config, harness, scans, found, done, failed, heap, freed, ret, all_deps,
                   out, handles, mpc, argi, exitCode>>

\* lines 217-219: the accumulated set, in its iteration order, one tab each
FlatLines(deps) ==
    LET sorted == SetInOrder(deps)
    IN [k \in 1..Len(sorted) |-> [tabs |-> 1, text |-> sorted[k]]]

-----------------------------------------------------------------------------
(* print_tree_deps *)

\* a tree walk that writes a line for the root as well
TreeEnterAtRoot ==
    /\ Running("print_tree_deps", "enter")
    /\ out' = Append(out, [tabs |-> Top.depth + 1, text |-> heap[Top.binary]._name])
    /\ stack' = SetTop([Top EXCEPT !.pc = "loop"])
    /\ UNCHANGED <<config, harness, scans, found, done, failed, heap, freed, ret, all_deps,
                   handles, mpc, argi, exitCode>>

\* lines 224-229: below the root, the node's name behind depth tabs
TreeEnter ==
    /\ Running("print_tree_deps", "enter")
    /\ out' = IF Top.depth > 0
              THEN Append(out, [tabs |-> Top.depth, text |-> heap[Top.binary]._name])
              ELSE out
    /\ stack' = SetTop([Top EXCEPT !.pc = "loop"])
    /\ UNCHANGED <<config, harness, scans, found, done, failed, heap, freed, ret, all_deps,
                   handles, mpc, argi, exitCode>>

\* a tree walk that does not descend into a path it is already inside of
TreeStepGuarded ==
    /\ Running("print_tree_deps", "loop")
    /\ Top.i <= Len(heap[Top.binary]._depends)
    /\ LET dep == heap[Top.binary]._depends[Top.i]
           reg == Touch(found, dep)
           next == [Top EXCEPT !.i = Top.i + 1]
       IN /\ found' = reg
          /\ IF reg[dep] # NULL /\ \A k \in 1..Len(stack) : stack[k].file # dep
             THEN /\ Len(stack) < MaxStack
                  /\ stack' = Append(SetTop(next),
                                     Frame("print_tree_deps", "enter", dep, reg[dep],
                                           Top.depth + 1))
             ELSE stack' = SetTop(next)
    /\ UNCHANGED <<config, harness, scans, done, failed, heap, freed, ret, all_deps, out,
                   handles, mpc, argi, exitCode>>

\* lines 230-235: one iteration; the lookup of line 231 goes through operator[]
TreeStep ==
    /\ Running("print_tree_deps", "loop")
    /\ Top.i <= Len(heap[Top.binary]._depends)
    /\ LET dep == heap[Top.binary]._depends[Top.i]
           reg == Touch(found, dep)
           next == [Top EXCEPT !.i = Top.i + 1]
       IN /\ found' = reg
          /\ IF reg[dep] # NULL
             THEN /\ Len(stack) < MaxStack
                  /\ stack' = Append(SetTop(next),
                                     Frame("print_tree_deps", "enter", dep, reg[dep],
                                           Top.depth + 1))
             ELSE stack' = SetTop(next)
    /\ UNCHANGED <<config, harness, scans, done, failed, heap, freed, ret, all_deps, out,
                   handles, mpc, argi, exitCode>>

\* line 236: the loop is over
TreeReturn ==
    /\ Running("print_tree_deps", "loop")
    /\ Top.i > Len(heap[Top.binary]._depends)
    /\ stack' = Pop
    /\ UNCHANGED <<config, harness, scans, found, done, failed, heap, freed, ret, all_deps,
                   out, handles, mpc, argi, exitCode>>

-----------------------------------------------------------------------------
(* main, from line 263 on: the options have been read into the state *)

\* lines 263-266: no operand
MainUsage ==
    /\ mpc = "args"
    /\ args = <<>>
    /\ exitCode' = 1
    /\ mpc' = "done"
    /\ UNCHANGED <<config, harness, scans, found, done, failed, heap, freed, stack, ret,
                   all_deps, out, handles, argi>>

\* lines 269-273: count the input, write its header, call process_file
MainInput ==
    /\ mpc \in {"args", "loop"}
    /\ argi <= Len(args)
    /\ done' = done + 1
    /\ out' = Append(out, [tabs |-> 0, text |-> args[argi] \o <<Colon>>])
    /\ stack' = <<Frame("process_file", "open", args[argi], NULL, 0)>>
    /\ mpc' = "pf"
    /\ UNCHANGED <<config, harness, scans, found, failed, heap, freed, ret, all_deps,
                   handles, argi, exitCode>>

\* lines 273-286: count a failure, look the input's record up (operator[]),
\* start the listing; print_flat_deps' line 215 makes the empty set
MainListing ==
    /\ mpc = "pf"
    /\ stack = <<>>
    /\ failed' = IF ret THEN failed ELSE failed + 1
    /\ LET name == args[argi]
           reg == Touch(found, name)
       IN /\ found' = reg
          /\ IF reg[name] = NULL
             THEN /\ argi' = argi + 1
                  /\ mpc' = "loop"
                  /\ UNCHANGED <<stack, all_deps>>
             ELSE /\ mpc' = "walk"
                  /\ UNCHANGED argi
                  /\ IF tree
                     THEN /\ stack' = <<Frame("print_tree_deps", "enter", name,
                                              reg[name], 0)>>
                          /\ UNCHANGED all_deps
                     ELSE /\ stack' = <<Frame("gather_flat_deps", "loop", name,
                                              reg[name], 0)>>
                          /\ all_deps' = {}
    /\ UNCHANGED <<config, harness, scans, done, heap, freed, ret, out, handles, exitCode>>

\* the listing is over: print_flat_deps writes its set (lines 217-219), and
\* main goes to its next operand
MainListed ==
    /\ mpc = "walk"
    /\ stack = <<>>
    /\ out' = IF tree THEN out ELSE out \o FlatLines(all_deps)
    /\ argi' = argi + 1
    /\ mpc' = "loop"
    /\ UNCHANGED <<config, harness, scans, found, done, failed, heap, freed, stack, ret,
                   all_deps, handles, exitCode>>

\* a status that does not tell a partial failure from a total one
ExitStatusAnyFailure(nfailed, ndone) == IF nfailed # 0 THEN 2 ELSE 0

\* lines 295-300
ExitStatus(nfailed, ndone) ==
    IF nfailed = ndone THEN 3 ELSE IF nfailed # 0 THEN 2 ELSE 0

\* lines 289-300: delete every record the registry points to, return the status
MainExit ==
    /\ mpc = "loop"
    /\ argi > Len(args)
    /\ freed' = {found[k] : k \in DOMAIN found} \ {NULL}
    /\ exitCode' = ExitStatus(failed, done)
    /\ mpc' = "done"
    /\ UNCHANGED <<config, harness, scans, found, done, failed, heap, stack, ret, all_deps,
                   out, handles, argi>>

-----------------------------------------------------------------------------
(* The inputs: file contents, file systems, command lines *)

Needed(name) == [ok |-> TRUE, d_tag |-> "DT_NEEDED", str |-> name]
Rpath(dir) == [ok |-> TRUE, d_tag |-> "DT_RPATH", str |-> dir]
Soname(name) == [ok |-> TRUE, d_tag |-> "DT_SONAME", str |-> name]
\* an entry gelf_getdyn cannot read
BadEntry == [ok |-> FALSE, d_tag |-> "DT_NULL", str |-> <<>>]

Text == [hdr |-> TRUE, sh_type |-> "SHT_PROGBITS", pre |-> TRUE, dyn |-> <<>>]
Dynamic(entries) == [hdr |-> TRUE, sh_type |-> "SHT_DYNAMIC", pre |-> TRUE, dyn |-> entries]
\* a dynamic section whose data cannot be read
NoData(entries) == [hdr |-> TRUE, sh_type |-> "SHT_DYNAMIC", pre |-> FALSE, dyn |-> entries]
\* a section whose header cannot be read
BadHdr == [hdr |-> FALSE, sh_type |-> "SHT_PROGBITS", pre |-> TRUE, dyn |-> <<>>]

Elf(secs) == [kind |-> "elf", secs |-> secs]
NotElf == [kind |-> "data", secs |-> <<>>]
NoPerm == [kind |-> "noperm", secs |-> <<>>]
\* not a file content: the path does not exist
Absent == [kind |-> "absent", secs |-> <<>>]

Entries(rpaths, deps) ==
    [k \in 1..Len(rpaths) |-> Rpath(rpaths[k])] \o [k \in 1..Len(deps) |-> Needed(deps[k])]

\* a well-formed object with these search paths and these dependencies
Lib(rpaths, deps) == Elf(<<Text, Dynamic(<<Soname(NameX)>> \o Entries(rpaths, deps))>>)

ContentsA ==
    { Lib(<<>>, <<FileB, FileC>>),
      Lib(<<DirR>>, <<NameX, FileB>>),
      Lib(<<>>, <<FileA, FileB>>) }

ContentsB ==
    { Absent, NotElf,
      Lib(<<>>, <<>>),
      Lib(<<>>, <<FileA>>),
      Lib(<<>>, <<FileC>>),
      Lib(<<>>, <<FileC, FileC>>),
      \* the dynamic section's data cannot be read
      Elf(<<NoData(Entries(<<>>, <<FileC>>))>>),
      \* a section header after the dynamic section cannot be read
      Elf(<<Dynamic(Entries(<<>>, <<FileC>>)), BadHdr>>),
      \* the second dynamic entry cannot be read
      Elf(<<Dynamic(<<Needed(FileC), BadEntry, Needed(FileA)>>)>>) }

ContentsC ==
    { Absent, NoPerm,
      Lib(<<>>, <<>>),
      Lib(<<DirR>>, <<NameX>>),
      Lib(<<>>, <<FileB>>) }

ContentsX == { Absent, Lib(<<>>, <<>>) }

\* the file system holding these contents
MkFs(a, b, c, ox, rx) ==
    LET all == (FileA :> a) @@ (FileB :> b) @@ (FileC :> c) @@ (OX :> ox) @@ (RX :> rx)
        present == {p \in DOMAIN all : all[p].kind # "absent"}
    IN [p \in present |-> all[p]]

FileSystems ==
    { MkFs(a, b, c, ox, rx) : a \in ContentsA, b \in ContentsB, c \in ContentsC,
                              ox \in ContentsX, rx \in ContentsX }

Inputs == {FileA, FileB}

RECURSIVE SeqsUpTo(_, _)
SeqsUpTo(S, n) ==
    IF n = 0 THEN {<<>>}
    ELSE LET shorter == SeqsUpTo(S, n - 1)
         IN shorter \cup {Append(q, x) : q \in shorter, x \in S}

CommandLines == SeqsUpTo(Inputs, MaxArgs)

\* -R entries given on the command line
OrigRpaths == {<<>>, <<DirO>>}
\* -P
Prefixes == {<<>>}

-----------------------------------------------------------------------------
(* resolve_symbol on its own *)

RsIdle == [name |-> <<>>, rpaths |-> <<>>, prefix |-> <<>>, exists |-> {}]
RsNone == [done |-> FALSE, path |-> <<>>]

\* "", "x", "d/x", "/a"
RsNames == {<<>>, NameX, <<100, Slash>> \o NameX, FileA}
\* "", "/o", "/r", "/o/"
RsDirs == {<<>>, DirO, DirR, DirO \o <<Slash>>}
\* "", "/p"
RsPrefixes == {<<>>, <<Slash, 112>>}

\* the paths resolve_symbol can test for a name, and the name itself
RsCandidates(name, pfx) == {PathJoin(pfx \o d, name) : d \in RsDirs} \cup {name}

RsInputs ==
    UNION { { [name |-> n, rpaths |-> r, prefix |-> x, exists |-> e] :
                r \in SeqsUpTo(RsDirs, MaxRpaths), e \in SUBSET RsCandidates(n, x) } :
            n \in RsNames, x \in RsPrefixes }

-----------------------------------------------------------------------------
(* The program *)

\* the state at line 263: XplddState() (lines 37-44) and the options read
Init ==
    /\ fs \in FileSystems
    /\ args \in CommandLines
    /\ prefix \in Prefixes
    /\ orig_rpath \in OrigRpaths
    /\ recurse \in BOOLEAN
    /\ tree \in BOOLEAN
    /\ found = <<>>
    /\ done = 0
    /\ failed = 0
    /\ heap = <<>>
    /\ freed = {}
    /\ stack = <<>>
    /\ ret = FALSE
    /\ all_deps = {}
    /\ out = <<>>
    /\ handles = [fd |-> 0, elf |-> 0]
    /\ mpc = "args"
    /\ argi = 1
    /\ exitCode = -1
    /\ scans = <<>>
    /\ rsIn = RsIdle
    /\ rsOut = RsNone

Next ==
    \/ MainUsage
    \/ MainInput
    \/ PFOpen
    \/ PFScan
    \/ PFRegister
    \/ PFDep
    \/ PFReturn
    \/ MainListing
    \/ GatherStep
    \/ GatherReturn
    \/ TreeEnter
    \/ TreeStep
    \/ TreeReturn
    \/ MainListed
    \/ MainExit

Spec == Init /\ [][Next]_vars

\* the program run without -n, every step taken as long as one is possible: the
\* program is sequential and nothing but its own control flow decides whether
\* it goes on
InitFair == Init /\ recurse

FairSpec == InitFair /\ [][Next]_vars /\ WF_vars(Next)

-----------------------------------------------------------------------------
(* resolve_symbol called on arbitrary arguments *)

InitResolve ==
    /\ rsIn \in RsInputs
    /\ rsOut = RsNone
    /\ fs = <<>>
    /\ args = <<>>
    /\ prefix = <<>>
    /\ orig_rpath = <<>>
    /\ recurse = TRUE
    /\ tree = FALSE
    /\ found = <<>>
    /\ done = 0
    /\ failed = 0
    /\ heap = <<>>
    /\ freed = {}
    /\ stack = <<>>
    /\ ret = FALSE
    /\ all_deps = {}
    /\ out = <<>>
    /\ handles = [fd |-> 0, elf |-> 0]
    /\ mpc = "args"
    /\ argi = 1
    /\ exitCode = -1
    /\ scans = <<>>

ResolveCall ==
    /\ ~rsOut.done
    /\ rsOut' = [done |-> TRUE,
                 path |-> resolve_symbol(rsIn.name, rsIn.rpaths, rsIn.prefix, rsIn.exists)]
    /\ UNCHANGED <<config, rsIn, scans, found, done, failed, heap, freed, stack, ret,
                   all_deps, out, handles, mpc, argi, exitCode>>

NextResolve == ResolveCall

SpecResolve == InitResolve /\ [][NextResolve]_vars

-----------------------------------------------------------------------------
(* What the file system holds, read without running the program *)

Range(q) == {q[k] : k \in 1..Len(q)}

\* the heap addresses of the records made for a path
RecordsNamed(path) == {a \in 1..Len(heap) : heap[a]._name = path}

\* how often the sections of a path were scanned
TimesScanned(path) == Cardinality({k \in 1..Len(scans) : scans[k] = path})

\* what one scan of the file reads
Scanned(path) == ScanFrom(1, fs[path].secs, NewBinary(path), FALSE)

\* the file is one process_file registers: it opens, is an ELF object, and no
\* section header fails
Registers(path) ==
    /\ path \in DOMAIN fs
    /\ fs[path].kind = "elf"
    /\ ~Scanned(path).aborted

\* the first search-path entry under which the name exists, 0 if there is none
FirstHit(name, rpaths, pfx, exists) ==
    LET hits == {k \in 1..Len(rpaths) : PathJoin(pfx \o rpaths[k], name) \in exists}
    IN IF hits = {} THEN 0 ELSE CHOOSE k \in hits : \A j \in hits : k <= j

\* the resolver as the specification words it
RefResolve(name, rpaths, pfx, exists) ==
    LET k == FirstHit(name, rpaths, pfx, exists)
    IN IF Len(name) > 0 /\ Head(name) = Slash THEN name
       ELSE IF k = 0 THEN name
       ELSE PathJoin(pfx \o rpaths[k], name)

\* the dependency graph the file system declares: the resolved dependencies of a
\* file that registers
FsDeps(path) ==
    IF Registers(path)
    THEN LET b == Scanned(path).binary
         IN {RefResolve(n, orig_rpath \o b._rpath, prefix, DOMAIN fs) : n \in Range(b._depends)}
    ELSE {}

RECURSIVE FsReach(_)
FsReach(S) ==
    LET T == S \cup UNION {FsDeps(p) : p \in S}
    IN IF T = S THEN S ELSE FsReach(T)

\* the files on a dependency cycle that is reachable from root
FsCycleNodes(root) ==
    {p \in FsReach({root}) : Registers(p) /\ p \in FsReach(FsDeps(p))}

-----------------------------------------------------------------------------
(* C1 *)

FirstCallRunning == recurse /\ done = 1 /\ mpc = "pf" /\ stack # <<>>

FirstCallReturned ==
    /\ recurse /\ done = 1 /\ mpc = "pf" /\ stack = <<>>
    /\ \A p \in FsCycleNodes(args[1]) :
          /\ p \in DOMAIN found
          /\ found[p] # NULL
          /\ RecordsNamed(p) = {found[p]}

\* C1: with recursion enabled, process_file on the first input returns, whatever
\* cycles its dependency graph holds, and then every file on such a cycle has
\* exactly one record, the one the registry holds under its path.
C1_CycleTerminates == FirstCallRunning ~> FirstCallReturned

\* process_file has returned on /a, where /a and /b depend on each other
C1_CycleProcessed ==
    /\ FirstCallReturned
    /\ args[1] = FileA
    /\ {FileA, FileB} \subseteq FsCycleNodes(FileA)

-----------------------------------------------------------------------------
(* C2 *)

\* C2: in every activation of process_file the path is registered after the
\* scan and before the first recursive call: an activation that has not yet
\* registered has called nothing, and one that is in its dependency loop (or
\* waits for a recursive call to return) has scanned its file and finds its
\* own record under its path in the registry.
C2_RegisteredBeforeDescent ==
    recurse =>
      \A k \in 1..Len(stack) :
         stack[k].fn = "process_file" =>
            /\ stack[k].pc \in {"open", "scan", "register"} => k = Len(stack)
            /\ stack[k].pc = "deps" =>
                  /\ stack[k].file \in Range(scans)
                  /\ stack[k].file \in DOMAIN found
                  /\ found[stack[k].file] = stack[k].binary

\* a recursive activation is about to resolve a dependency that is the path of
\* an activation still in progress
C2_CycleFindsKey ==
    /\ recurse
    /\ Len(stack) >= 2
    /\ Running("process_file", "deps")
    /\ Top.i <= Len(heap[Top.binary]._depends)
    /\ \E k \in 1..(Len(stack) - 1) :
          /\ stack[k].fn = "process_file"
          /\ heap[Top.binary]._depends[Top.i] = stack[k].file
          /\ stack[k].file \in DOMAIN found

-----------------------------------------------------------------------------
(* C3 *)

\* C3: within one invocation the sections of each path are scanned at most once.
C3_ScannedAtMostOnce == \A p \in Range(scans) : TimesScanned(p) <= 1

-----------------------------------------------------------------------------
(* C4 *)

\* C4: once a key of the registry maps to a record, no step assigns another
\* record to that key.
C4_RegisteredOnce ==
    [][\A p \in DOMAIN found : found[p] # NULL => found'[p] = found[p]]_vars

-----------------------------------------------------------------------------
(* C5 *)

\* C5: a step in which process_file calls itself is made with recursion enabled,
\* on the resolved value of the current dependency entry, and that value is an
\* absolute path that is not a key of the registry at the call.
C5_DescentOnlyIntoNew ==
    [][(stack # <<>> /\ Top.fn = "process_file" /\ Len(stack') > Len(stack)) =>
          LET callee == stack'[Len(stack')]
              dep == heap'[Top.binary]._depends[Top.i]
          IN /\ recurse
             /\ callee.fn = "process_file"
             /\ callee.file = dep
             /\ Len(dep) > 0 /\ Head(dep) = Slash
             /\ dep \notin DOMAIN found]_vars

\* a recursive activation has just been entered
C5_Descended ==
    /\ Len(stack) >= 2
    /\ Running("process_file", "open")
    /\ stack[Len(stack) - 1].fn = "process_file"

-----------------------------------------------------------------------------
(* C6 *)

\* C6: resolve_symbol returns an absolute name unchanged; for any other name
\* the join of prefix + entry with the name for the first entry, in list order,
\* whose join exists; and the name unchanged when no entry has one.
C6_ResolveIsReference ==
    rsOut.done =>
       rsOut.path = RefResolve(rsIn.name, rsIn.rpaths, rsIn.prefix, rsIn.exists)

\* a relative name missing under the first entry and present under the second
C6_SecondEntryHit ==
    /\ rsOut.done
    /\ rsIn.name = NameX
    /\ FirstHit(rsIn.name, rsIn.rpaths, rsIn.prefix, rsIn.exists) = 2
    /\ rsOut.path = PathJoin(rsIn.prefix \o rsIn.rpaths[2], NameX)
    /\ rsOut.path # NameX

-----------------------------------------------------------------------------
(* C7 *)

\* the first caller-supplied entry under which the name exists, 0 if none
CallerHit(name) == FirstHit(name, orig_rpath, prefix, DOMAIN fs)

\* C7: the search list of an activation is the caller's entries followed by the
\* binary's own, and every dependency resolved so far is the reference
\* resolution of its raw name against that list; so a relative name that exists
\* under a caller-supplied entry resolves to the candidate under the first such
\* entry, whatever exists under the binary's own entries.
C7_CallerEntriesFirst ==
    \A k \in 1..Len(stack) :
       (stack[k].fn = "process_file" /\ stack[k].pc = "deps") =>
          LET f == stack[k]
              own == Scanned(f.file).binary._rpath
              raw == Scanned(f.file).binary._depends
          IN /\ f.combined_rpath = orig_rpath \o own
             /\ Len(f.combined_rpath) = Len(orig_rpath) + Len(own)
             /\ \A j \in 1..Len(orig_rpath) : f.combined_rpath[j] = orig_rpath[j]
             /\ \A j \in 1..(f.i - 1) :
                   /\ heap[f.binary]._depends[j] =
                         RefResolve(raw[j], orig_rpath \o own, prefix, DOMAIN fs)
                   /\ (~IsAbsolute(raw[j]) /\ CallerHit(raw[j]) # 0) =>
                         heap[f.binary]._depends[j] =
                            PathJoin(prefix \o orig_rpath[CallerHit(raw[j])], raw[j])

\* x exists under the caller's /o and under the binary's own /r, and resolved
\* to /o/x
C7_BothExist ==
    /\ Running("process_file", "deps")
    /\ Top.i > 1
    /\ orig_rpath = <<DirO>>
    /\ heap[Top.binary]._rpath = <<DirR>>
    /\ Scanned(Top.file).binary._depends[1] = NameX
    /\ OX \in DOMAIN fs /\ RX \in DOMAIN fs
    /\ heap[Top.binary]._depends[1] = OX

-----------------------------------------------------------------------------
(* The registry as a graph, and the listing of the current input *)

HasRecord(path) == path \in DOMAIN found /\ found[path] # NULL

\* the dependencies of the record registered under a path
RegDeps(path) == IF HasRecord(path) THEN heap[found[path]]._depends ELSE <<>>

RECURSIVE RegReach(_)
RegReach(S) ==
    LET T == S \cup UNION {Range(RegDeps(p)) : p \in S}
    IN IF T = S THEN S ELSE RegReach(T)

\* every dependency value reachable from the record under root
ReachableDeps(root) == RegReach(Range(RegDeps(root)))

\* no record reachable from root (root included) reaches itself
Acyclic(root) ==
    \A p \in {root} \cup ReachableDeps(root) : p \notin ReachableDeps(p)

RECURSIVE SumLen(_)
SumLen(S) ==
    IF S = {} THEN 0
    ELSE LET p == CHOOSE x \in S : TRUE
         IN Len(RegDeps(p)) + SumLen(S \ {p})

\* the dependency entries of the records reachable from root
EdgeCount(root) == SumLen({root} \cup ReachableDeps(root))

\* the dependency chains from entry i of path on, in which every value has a record
RECURSIVE ChainsFrom(_, _)
ChainsFrom(path, i) ==
    IF i > Len(RegDeps(path)) THEN 0
    ELSE (IF HasRecord(RegDeps(path)[i]) THEN 1 + ChainsFrom(RegDeps(path)[i], 1) ELSE 0)
         + ChainsFrom(path, i + 1)

\* the lines written after the last header line
RECURSIVE Listing(_)
Listing(lines) ==
    IF lines = <<>> THEN <<>>
    ELSE IF lines[Len(lines)].tabs = 0 THEN <<>>
    ELSE Append(Listing(SubSeq(lines, 1, Len(lines) - 1)), lines[Len(lines)])

\* the flat listing of the previous input has been written
FlatListed == ~tree /\ mpc = "loop" /\ argi > 1 /\ HasRecord(args[argi - 1])

\* the tree walk of the current input has returned
TreeFinished == tree /\ mpc = "walk" /\ stack = <<>>

-----------------------------------------------------------------------------
(* C8 *)

\* C8: the flat listing of a root is the set of the dependency values reachable
\* from it through the registry, without the root's own key, in ascending
\* order; the set the listing is written from never holds anything else.
C8_FlatListingIsReachableSet ==
    /\ (~tree /\ mpc = "walk") =>
          all_deps \subseteq ReachableDeps(args[argi]) \ {args[argi]}
    /\ FlatListed =>
          Listing(out) = FlatLines(ReachableDeps(args[argi - 1]) \ {args[argi - 1]})

-----------------------------------------------------------------------------
(* C9 *)

\* C9: the flat walk never descends into a dependency value that is already in
\* the accumulator.
C9_NoRedescent ==
    [][(stack # <<>> /\ Top.fn = "gather_flat_deps" /\ Len(stack') > Len(stack)) =>
          heap[Top.binary]._depends[Top.i] \notin all_deps]_vars

-----------------------------------------------------------------------------
(* C10 *)

\* C10 as claimed: on an acyclic registry graph the tree listing has as many
\* lines as the graph reachable from the root has edges.
C10_LinesEqualEdges ==
    (TreeFinished /\ Acyclic(args[argi])) =>
       Len(Listing(out)) = EdgeCount(args[argi])

\* C10 as amended: on an acyclic registry graph the tree listing has one line
\* for every dependency chain from the root in which every value has a record:
\* one line per traversal of an edge that leads to a registered record.
C10_LinesEqualRegisteredChains ==
    (TreeFinished /\ Acyclic(args[argi])) =>
       Len(Listing(out)) = ChainsFrom(args[argi], 1)

\* a finished tree listing with more lines than the graph has edges (a record
\* with a registered dependency is reached on two paths)
C10_SharedSubtree ==
    /\ TreeFinished
    /\ Acyclic(args[argi])
    /\ Len(Listing(out)) > EdgeCount(args[argi])

-----------------------------------------------------------------------------
(* C11 *)

\* C11: the tree walk of a root from which a dependency cycle is reachable
\* through the registry never returns: a tree walk that has returned walked an
\* acyclic graph.
C11_TreeWalkOfCycleNeverReturns == TreeFinished => Acyclic(args[argi])

\* the tree walk is inside the same record for the second time, on a registry
\* that process_file built with a cycle
C11_TreeWalkReentered ==
    /\ tree /\ mpc = "walk"
    /\ ~Acyclic(args[argi])
    /\ \E j, k \in 1..Len(stack) :
          /\ j < k
          /\ stack[j].fn = "print_tree_deps"
          /\ stack[k].fn = "print_tree_deps"
          /\ stack[j].binary = stack[k].binary

-----------------------------------------------------------------------------
(* C12 *)

\* main is between two inputs, or past the last one
BetweenInputs == mpc \in {"loop", "done"}

\* C12: with recursion disabled, once inputs have been processed every
\* dependency entry of every registered binary has a record under its value,
\* and that record has no dependencies.
C12_PlaceholderForEveryEntry ==
    (~recurse /\ BetweenInputs) =>
       \A p \in DOMAIN found :
          \A d \in Range(RegDeps(p)) : HasRecord(d) /\ RegDeps(d) = <<>>

-----------------------------------------------------------------------------
(* C13 *)

\* what the file under path makes process_file return, read off the file system
InputFails(path) ==
    \/ ~CanOpen(path)
    \/ ~IsElf(path)
    \/ Scanned(path).failed

FailingInputs == {k \in 1..Len(args) : InputFails(args[k])}

\* C13: with n >= 1 inputs of which f fail the exit status is 0 when f = 0,
\* 2 when 0 < f < n and 3 when f = n; without an input it is 1 and nothing has
\* been processed.
C13_ExitStatus ==
    mpc = "done" =>
       LET n == Len(args)
           f == Cardinality(FailingInputs)
       IN IF n = 0
          THEN exitCode = 1 /\ done = 0 /\ heap = <<>> /\ found = <<>> /\ out = <<>>
          ELSE exitCode = IF f = 0 THEN 0 ELSE IF f < n THEN 2 ELSE 3

\* a batch of two inputs of which exactly one failed has ended with status 2
C13_PartialFailure ==
    /\ mpc = "done"
    /\ Len(args) = 2
    /\ Cardinality(FailingInputs) = 1
    /\ exitCode = 2

-----------------------------------------------------------------------------
(* C14 *)

\* C14: a process_file that opened its file and found it to be ELF returns
\* with a record registered under its path, however the scan of the sections
\* ended.
C14_RegisteredHoweverScanEnds ==
    [][(PFReturn /\ CanOpen(Top.file) /\ IsElf(Top.file)) => HasRecord(Top.file)]_vars

-----------------------------------------------------------------------------
(* C15 *)

\* the running activation is a process_file on a file that cannot be opened or
\* is not an ELF file
RejectedFileRunning ==
    /\ stack # <<>>
    /\ Top.fn = "process_file"
    /\ (~CanOpen(Top.file) \/ ~IsElf(Top.file))

\* C15: a process_file on a file that cannot be opened, or that is not an ELF
\* file, calls nothing, leaves the registry as it found it at every step and
\* returns failure.
C15_RejectedFileLeavesRegistry ==
    [][RejectedFileRunning =>
          /\ found' = found
          /\ Len(stack') <= Len(stack)
          /\ (Len(stack') < Len(stack) => ret' = FALSE)]_vars

\* process_file has returned failure to main for a second input that opens but
\* is not ELF, the registry holding the first input's records
C15_RejectedAfterRegistered ==
    /\ mpc = "pf" /\ stack = <<>> /\ ~ret
    /\ argi = 2
    /\ CanOpen(args[argi]) /\ ~IsElf(args[argi])
    /\ HasRecord(args[1])

-----------------------------------------------------------------------------
(* C16 *)

\* C16: the registry, its key set included, changes only in steps of
\* process_file; the flat walk, the tree walk and main's lookup of an input's
\* record leave it as it is.
C16_RegistryChangesOnlyInProcessFile ==
    [][found' # found => (stack # <<>> /\ Top.fn = "process_file")]_vars

-----------------------------------------------------------------------------
(* C17 *)

\* section k of the file is reached by the scan and has a format error: its
\* header cannot be read, or it is a dynamic section whose data or string
\* table cannot be read, or one of whose entries cannot be read
FormatErrorAt(secs, k) ==
    /\ \A j \in 1..(k - 1) : secs[j].hdr
    /\ \/ ~secs[k].hdr
       \/ /\ secs[k].sh_type = "SHT_DYNAMIC"
          /\ (~secs[k].pre \/ \E j \in 1..Len(secs[k].dyn) : ~secs[k].dyn[j].ok)

MeetsFormatError(path) ==
    /\ CanOpen(path)
    /\ IsElf(path)
    /\ \E k \in 1..Len(fs[path].secs) : FormatErrorAt(fs[path].secs, k)

\* C17: a process_file whose scan met a format error returns failure, the
\* case of a dynamic entry that cannot be read included.
C17_FormatErrorIsFailure ==
    [][(PFReturn /\ MeetsFormatError(Top.file)) => ret' = FALSE]_vars

-----------------------------------------------------------------------------
(* C18 *)

\* entry j of the activation's record has been dealt with: it holds the
\* resolution of the name read from the file, and when that is an absolute path
\* the path is a key of the registry or process_file has been called on it
EntryHandled(f, j) ==
    LET read == Scanned(f.file).binary
        d == heap[f.binary]._depends[j]
    IN /\ d = resolve_symbol(read._depends[j],
                             CombinedRpath(orig_rpath, read._rpath), prefix, DOMAIN fs)
       /\ IsAbsolute(d) => (d \in DOMAIN found \/ RecordsNamed(d) # {})

\* C18: with recursion, a process_file that entered its dependency loop
\* returns only when every entry of its list has been resolved and, where
\* eligible, descended into, whatever the calls on earlier entries returned;
\* and a path that has a record keeps one.
C18_FailureStopsNoSibling ==
    [][recurse =>
          /\ (PFReturn /\ Top.pc = "deps") =>
                \A j \in 1..Len(heap[Top.binary]._depends) : EntryHandled(Top, j)
          /\ \A p \in DOMAIN found : HasRecord(p) => (p \in DOMAIN found' /\ found'[p] # NULL)]_vars

\* /a has finished its loop over /b and /c: the call on /b failed, leaving the
\* record it registered, and the call on /c was still made
C18_SiblingAfterFailure ==
    /\ recurse
    /\ Running("process_file", "deps")
    /\ Top.file = FileA
    /\ heap[Top.binary]._depends = <<FileB, FileC>>
    /\ Top.i > 2
    /\ CanOpen(FileB) /\ InputFails(FileB) /\ HasRecord(FileB)
    /\ HasRecord(FileC)

-----------------------------------------------------------------------------
(* C19 *)

\* the process_file activations that have opened their file
OpenActivations ==
    {k \in 1..Len(stack) : stack[k].fn = "process_file" /\ stack[k].pc # "open"}

\* C19: the descriptors and the ELF handles held are those of the
\* process_file activations on the stack that opened their file, one of each
\* per activation: none is held when no process_file is on the stack.
C19_HandlesHeldOnlyByActivations ==
    /\ handles.fd = Cardinality(OpenActivations)
    /\ handles.elf = Cardinality(OpenActivations)

\* process_file has returned failure to main for an input that it had opened,
\* after a first input was processed, and nothing is held
C19_ReleasedAfterFailure ==
    /\ mpc = "pf" /\ stack = <<>> /\ ~ret
    /\ argi = 2
    /\ CanOpen(args[argi])
    /\ Len(scans) > 1
    /\ handles = [fd |-> 0, elf |-> 0]

-----------------------------------------------------------------------------
(* C20 *)

\* the running process_file returns in this step
ProcessFileReturns ==
    /\ stack # <<>>
    /\ Top.fn = "process_file"
    /\ Len(stack') < Len(stack)

\* C20: what process_file returns for a path is decided by the open, the kind
\* check and the scan of that path alone; the failure counter moves only when
\* main receives the result of a top-level input, by one when that input
\* fails; and a batch none of whose inputs fails ends with status 0.
C20_ResultIsOwnScan ==
    [][/\ ProcessFileReturns => (ret' = ~InputFails(Top.file))
       /\ failed' = IF MainListing /\ InputFails(args[argi])
                    THEN failed + 1 ELSE failed
       /\ (mpc' = "done" /\ args # <<>> /\ FailingInputs = {}) => exitCode' = 0]_vars

\* the batch xpldd /a has ended with status 0 although process_file was called
\* on /a's first dependency and failed on it
C20_CleanBatchOverFailedDependency ==
    /\ recurse
    /\ mpc = "done" /\ exitCode = 0
    /\ args = <<FileA>>
    /\ RegDeps(FileA) # <<>>
    /\ RegDeps(FileA)[1] = FileB
    /\ RecordsNamed(FileB) # {}
    /\ InputFails(FileB)

=============================================================================
